---- MODULE Spec2Model ----
(***************************************************************************)
(* Model of hyperion.pdfs.core.exp_family.ExpFamily: sufficient-statistic  *)
(* accumulation (Estep), the one-iteration EM driver (fit), the ELBO and   *)
(* the per-sample log-likelihood.                                          *)
(*                                                                         *)
(* Arrays are sequences of rows, a row is a vector of Dim integers (exact  *)
(* arithmetic stands for floating point).  An optional Python argument is  *)
(* None (the empty tuple) or Some(v) (the one-element tuple).  A numpy     *)
(* array that the code writes in place is modelled by returning the new    *)
(* contents of the caller's array next to the function's result.           *)
(***************************************************************************)
EXTENDS Integers, Sequences, FiniteSets, TLC

Dim == 1
MaxRows == 2
MaxVal == 1
MaxW == 2
MaxBatch == 3
MaxEta == 1
MaxEntry == 2

None == <<>>
Some(v) == <<v>>
IsNone(o) == o = <<>>
Get(o) == o[1]

Min(a, b) == IF a < b THEN a ELSE b

----------------------------------------------------------------------------
(* numpy helpers *)

Zeros == [j \in 1..Dim |-> 0]

VecAdd(a, b) == [j \in 1..Dim |-> a[j] + b[j]]

RECURSIVE SumSeq(_)
SumSeq(s) == IF Len(s) = 0 THEN 0 ELSE s[1] + SumSeq(Tail(s))

RECURSIVE SumRows(_)
SumRows(m) == IF Len(m) = 0 THEN Zeros ELSE VecAdd(m[1], SumRows(Tail(m)))

Inner(u, v) == SumSeq([j \in 1..Dim |-> u[j] * v[j]])

ScaleRows(m, w) == [i \in 1..Len(m) |-> [j \in 1..Dim |-> m[i][j] * w[i]]]

Slice(s, i1, i2) == SubSeq(s, i1 + 1, i2)

SliceAssign(s, i1, i2, v) ==
  [i \in 1..Len(s) |-> IF i > i1 /\ i <= i2 THEN v[i - i1] ELSE s[i]]

----------------------------------------------------------------------------
(* ExpFamily: sufficient statistics *)

compute_suff_stats(x) == x

(* mutant: the effective count ignores the sample weights *)
accum_suff_stats_1batch_count(x, u_x, sample_weights) ==
  LET own == ~IsNone(u_x)
      u0 == IF own THEN Get(u_x) ELSE compute_suff_stats(x)
      u1 == IF IsNone(sample_weights) THEN u0
            ELSE ScaleRows(u0, Get(sample_weights))
  IN [status |-> "ok", N |-> Len(u0), u_x |-> SumRows(u1),
      x |-> IF own THEN x ELSE u1,
      arg_u_x |-> IF own THEN Some(u1) ELSE None]

accum_suff_stats_1batch(x, u_x, sample_weights) ==
  LET own == ~IsNone(u_x)
      u0 == IF own THEN Get(u_x) ELSE compute_suff_stats(x)
      u1 == IF IsNone(sample_weights) THEN u0
            ELSE ScaleRows(u0, Get(sample_weights))
      N  == IF IsNone(sample_weights) THEN Len(u0)
            ELSE SumSeq(Get(sample_weights))
  IN [status |-> "ok", N |-> N, u_x |-> SumRows(u1),
      x |-> IF own THEN x ELSE u1,
      arg_u_x |-> IF own THEN Some(u1) ELSE None]

(* mutant: a later chunk overwrites the running totals instead of adding *)
RECURSIVE nbatches_loop_overwrite(_, _, _, _, _)
nbatches_loop_overwrite(x, sample_weights, batch_size, i1, acc) ==
  IF i1 >= Len(x) THEN acc
  ELSE LET i2   == Min(i1 + batch_size, Len(x))
           x_i  == Slice(x, i1, i2)
           sw_i == IF IsNone(sample_weights) THEN None
                   ELSE Some(Slice(Get(sample_weights), i1, i2))
           r    == accum_suff_stats_1batch(x_i, None, sw_i)
           xw   == SliceAssign(x, i1, i2, r.x)
           ch   == Append(acc.chunks, [i1 |-> i1, i2 |-> i2, sw_i |-> sw_i])
           nxt  == [status |-> "ok", N |-> r.N, u_x |-> r.u_x,
                    x |-> xw, arg_u_x |-> None, chunks |-> ch]
       IN nbatches_loop_overwrite(xw, sample_weights, batch_size,
                                  i1 + batch_size, nxt)

(* mutant: a chunk ends one row early *)
RECURSIVE nbatches_loop_short(_, _, _, _, _)
nbatches_loop_short(x, sample_weights, batch_size, i1, acc) ==
  IF i1 >= Len(x) THEN acc
  ELSE LET i2   == Min(i1 + batch_size - 1, Len(x))
           x_i  == Slice(x, i1, i2)
           sw_i == IF IsNone(sample_weights) THEN None
                   ELSE Some(Slice(Get(sample_weights), i1, i2))
           r    == accum_suff_stats_1batch(x_i, None, sw_i)
           xw   == SliceAssign(x, i1, i2, r.x)
           ch   == Append(acc.chunks, [i1 |-> i1, i2 |-> i2, sw_i |-> sw_i])
           nxt  == IF i1 = 0
                   THEN [status |-> "ok", N |-> r.N, u_x |-> r.u_x,
                         x |-> xw, arg_u_x |-> None, chunks |-> ch]
                   ELSE [status |-> "ok", N |-> acc.N + r.N,
                         u_x |-> VecAdd(acc.u_x, r.u_x),
                         x |-> xw, arg_u_x |-> None, chunks |-> ch]
       IN nbatches_loop_short(xw, sample_weights, batch_size,
                              i1 + batch_size, nxt)

RECURSIVE nbatches_loop(_, _, _, _, _)
nbatches_loop(x, sample_weights, batch_size, i1, acc) ==
  IF i1 >= Len(x) THEN acc
  ELSE LET i2   == Min(i1 + batch_size, Len(x))
           x_i  == Slice(x, i1, i2)
           sw_i == IF IsNone(sample_weights) THEN None
                   ELSE Some(Slice(Get(sample_weights), i1, i2))
           r    == accum_suff_stats_1batch(x_i, None, sw_i)
           xw   == SliceAssign(x, i1, i2, r.x)
           ch   == Append(acc.chunks, [i1 |-> i1, i2 |-> i2, sw_i |-> sw_i])
           nxt  == IF i1 = 0
                   THEN [status |-> "ok", N |-> r.N, u_x |-> r.u_x,
                         x |-> xw, arg_u_x |-> None, chunks |-> ch]
                   ELSE [status |-> "ok", N |-> acc.N + r.N,
                         u_x |-> VecAdd(acc.u_x, r.u_x),
                         x |-> xw, arg_u_x |-> None, chunks |-> ch]
       IN nbatches_loop(xw, sample_weights, batch_size, i1 + batch_size, nxt)

accum_suff_stats_nbatches(x, sample_weights, batch_size) ==
  nbatches_loop(x, sample_weights, batch_size, 0,
                [status |-> "raise", exc |-> "UnboundLocalError",
                 x |-> x, arg_u_x |-> None, chunks |-> <<>>])

accum_suff_stats(x, u_x, sample_weights, batch_size) ==
  IF ~IsNone(u_x) \/ IsNone(batch_size)
  THEN accum_suff_stats_1batch(x, u_x, sample_weights)
  ELSE accum_suff_stats_nbatches(x, sample_weights, Get(batch_size))

Estep(x, u_x, sample_weights, batch_size) ==
  accum_suff_stats(x, u_x, sample_weights, batch_size)

----------------------------------------------------------------------------
(* inputs *)

(* a sample: its Dim features carry one value *)
Rows == {[j \in 1..Dim |-> v] : v \in 0..MaxVal}

Matrices(n) == [1..n -> Rows]

Arrays == UNION {Matrices(n) : n \in 0..MaxRows}

(* a validation set of one sample *)
ValArrays == Matrices(1)

Weights(n) == {None} \cup {Some(w) : w \in [1..n -> 1..MaxW]}

BatchSizes == {None} \cup {Some(b) : b \in 1..MaxBatch}

(* one pass, one row per chunk, one chunk for all rows *)
EdgeBatchSizes == {None, Some(1), Some(MaxBatch)}

EtaVals == {[j \in 1..Dim |-> v] : v \in 0..MaxEta}

InBounds(m) == \A i \in 1..Len(m) : \A j \in 1..Dim : m[i][j] <= MaxEntry

----------------------------------------------------------------------------
VARIABLES eta, A, loghKind, x, x_val, pc, fr, ret, pre_x, pre_x_val, pipe

vars == <<eta, A, loghKind, x, x_val, pc, fr, ret, pre_x, pre_x_val, pipe>>

----------------------------------------------------------------------------
(* ExpFamily: base measure, ELBO, log-likelihood *)

logh_base(m) == [i \in 1..Len(m) |-> 0]

logh_override(m) == [i \in 1..Len(m) |-> SumSeq(m[i])]

(* a base measure that does not depend on the sample *)
logh_const(m) == [i \in 1..Len(m) |-> 1]

logh(m) ==
  CASE loghKind = "base" -> logh_base(m)
    [] loghKind = "const" -> logh_const(m)
    [] OTHER -> logh_override(m)

accum_logh(m, sample_weights) ==
  IF IsNone(sample_weights) THEN SumSeq(logh(m))
  ELSE SumSeq([i \in 1..Len(m) |-> Get(sample_weights)[i] * logh(m)[i]])

log_partition(e) == Inner(e, e)

elbo(m, u_x, N, logh_arg, sample_weights, batch_size) ==
  LET acc == IF IsNone(u_x)
             THEN accum_suff_stats(m, None, sample_weights, batch_size)
             ELSE [status |-> "ok", N |-> N, u_x |-> Get(u_x), x |-> m]
      lh  == IF IsNone(logh_arg) THEN accum_logh(acc.x, sample_weights)
             ELSE Get(logh_arg)
  IN IF acc.status = "raise"
     THEN [status |-> "raise", exc |-> acc.exc, value |-> 0, x |-> acc.x]
     ELSE IF IsNone(eta) \/ IsNone(A)
     THEN [status |-> "raise", exc |-> "TypeError", value |-> 0, x |-> acc.x]
     ELSE [status |-> "ok", exc |-> "",
           value |-> lh + Inner(acc.u_x, Get(eta)) - acc.N * Get(A),
           x |-> acc.x]

(* mutant: the base-measure term is left out *)
eval_llk_nat_nologh(m, u_x) ==
  LET u == IF IsNone(u_x) THEN compute_suff_stats(m) ELSE Get(u_x)
  IN IF IsNone(eta) \/ IsNone(A)
     THEN [status |-> "raise", exc |-> "TypeError", value |-> <<>>]
     ELSE [status |-> "ok", exc |-> "",
           value |-> [i \in 1..Len(u) |-> Inner(u[i], Get(eta)) - Get(A)]]

eval_llk_nat(m, u_x) ==
  LET u == IF IsNone(u_x) THEN compute_suff_stats(m) ELSE Get(u_x)
  IN IF IsNone(eta) \/ IsNone(A)
     THEN [status |-> "raise", exc |-> "TypeError", value |-> <<>>]
     ELSE [status |-> "ok", exc |-> "",
           value |-> [i \in 1..Len(u) |->
                        logh(m)[i] + Inner(u[i], Get(eta)) - Get(A)]]

eval_llk_std(m) ==
  [status |-> "raise", exc |-> "AttributeError", value |-> <<>>]

eval_llk(m, u_x, mode) ==
  IF mode = "nat" THEN eval_llk_nat(m, u_x) ELSE eval_llk_std(m)

StaticNames == {"compute_A_nat", "compute_A_std", "compute_eta", "compute_std"}

static_conversion(name) ==
  [status |-> "raise", exc |-> "NotImplementedError"]

MstepResults(N, u_x) ==
  {[eta |-> Some(e), A |-> Some(log_partition(e))] : e \in EtaVals}

Div(a, b) == [num |-> a, den |-> b]

----------------------------------------------------------------------------
NoFrame == [active |-> FALSE]

(* no scoring program is running *)
NoPipe == [pc |-> "none"]

InitDataOn(X) ==
  /\ pipe = NoPipe
  /\ A = None
  /\ x \in X
  /\ pc = "idle"
  /\ fr = NoFrame
  /\ ret = [op |-> "init"]
  /\ pre_x = x
  /\ pre_x_val = x_val

InitData == InitDataOn(Arrays)

(* one array longer than the others, so that the chunk loop meets a short *)
(* last chunk after a full one                                           *)
LongArray == [i \in 1..(MaxRows + 1) |-> [j \in 1..Dim |-> MaxVal]]

(* ExpFamily() as the accumulation calls see it: no parameter is read *)
InitAccum ==
  /\ eta = None
  /\ loghKind = "base"
  /\ x_val = None
  /\ InitDataOn(Arrays \cup {LongArray})

Init ==
  /\ eta \in {None} \cup {Some(e) : e \in EtaVals}
  /\ loghKind \in {"base", "override", "const"}
  /\ x_val \in {None} \cup {Some(m) : m \in ValArrays}
  /\ InitData

InitElbo ==
  /\ eta \in {None} \cup {Some(e) : e \in EtaVals}
  /\ loghKind \in {"base", "override"}
  /\ x_val = None
  /\ InitData

InitLlk == InitElbo

(* the argument tuples a caller passes to elbo *)
ElboArgs ==
  {[u_x |-> None, N |-> nl[1], logh |-> nl[2], sample_weights |-> sw,
    batch_size |-> bs] :
      nl \in {<<1, None>>, <<2, None>>, <<1, Some(1)>>},
      sw \in Weights(Len(x)),
      bs \in EdgeBatchSizes}
  \cup
  {[u_x |-> Some(v), N |-> N, logh |-> None, sample_weights |-> sw,
    batch_size |-> None] :
      v \in Rows, N \in {1, 2}, sw \in Weights(Len(x))}
  \cup
  {[u_x |-> Some(v), N |-> N, logh |-> Some(1), sample_weights |-> None,
    batch_size |-> bs] :
      v \in Rows, N \in {1, 2}, bs \in {None, Some(1)}}

----------------------------------------------------------------------------
(* a caller's direct calls; ret holds the arguments and the outcome of the *)
(* last call                                                              *)

(* the caller's arrays as they are when a call starts *)
Entry ==
  /\ pre_x' = x
  /\ pre_x_val' = x_val

(* Estep on the arrays of Init *)
CallEstep ==
  /\ pc = "idle"
  /\ ret.op = "init"
  /\ \E sw \in Weights(Len(x)), bs \in BatchSizes,
        u \in {None} \cup {Some(m) : m \in Matrices(Len(x))} :
       LET r == Estep(x, u, sw, bs)
       IN /\ x' = r.x
          /\ ret' = [op |-> "Estep", u_x_arg |-> u, sample_weights |-> sw,
                     batch_size |-> bs, status |-> r.status,
                     N |-> IF r.status = "ok" THEN r.N ELSE 0,
                     u_x |-> IF r.status = "ok" THEN r.u_x ELSE Zeros,
                     u_x_arg_after |-> r.arg_u_x,
                     chunks |-> IF IsNone(u) /\ ~IsNone(bs)
                                THEN r.chunks ELSE <<>>]
  /\ Entry
  /\ UNCHANGED <<pipe, eta, A, loghKind, x_val, pc, fr>>

CallElbo ==
  /\ pc = "idle"
  /\ \E a \in ElboArgs :
       LET r == elbo(x, a.u_x, a.N, a.logh, a.sample_weights, a.batch_size)
       IN /\ InBounds(r.x)
          /\ x' = r.x
          /\ ret' = [op |-> "elbo", u_x_arg |-> a.u_x, N_arg |-> a.N,
                     logh_arg |-> a.logh, sample_weights |-> a.sample_weights,
                     batch_size |-> a.batch_size, status |-> r.status,
                     exc |-> r.exc, value |-> r.value]
  /\ Entry
  /\ UNCHANGED <<pipe, eta, A, loghKind, x_val, pc, fr>>

CallEvalLlk ==
  /\ pc = "idle"
  /\ \E mode \in {"nat", "std"},
        u \in {None} \cup {Some(m) : m \in Matrices(Len(x))} :
       LET r == eval_llk(x, u, mode)
       IN ret' = [op |-> "eval_llk", u_x_arg |-> u, mode |-> mode,
                  status |-> r.status, exc |-> r.exc, value |-> r.value,
                  eta_before |-> eta, A_before |-> A]
  /\ Entry
  /\ UNCHANGED <<pipe, eta, A, loghKind, x, x_val, pc, fr>>

CallStatic ==
  /\ pc = "idle"
  /\ \E name \in StaticNames :
       LET r == static_conversion(name)
       IN ret' = [op |-> name, status |-> r.status, exc |-> r.exc,
                  eta_before |-> eta, A_before |-> A]
  /\ Entry
  /\ UNCHANGED <<pipe, eta, A, loghKind, x, x_val, pc, fr>>

CallMstep ==
  /\ pc = "idle"
  /\ \E p \in MstepResults(Len(x), SumRows(x)) :
       /\ eta' = p.eta
       /\ A' = p.A
  /\ ret' = [op |-> "Mstep"]
  /\ Entry
  /\ UNCHANGED <<pipe, loghKind, x, x_val, pc, fr>>

AssignEta ==
  /\ pc = "idle"
  /\ \E e \in EtaVals : eta' = Some(e)
  /\ ret' = [op |-> "assign_eta"]
  /\ Entry
  /\ UNCHANGED <<pipe, A, loghKind, x, x_val, pc, fr>>

----------------------------------------------------------------------------
(* fit on the arrays of Init, one step per statement; fr.trace lists the   *)
(* calls that fit has made                                                *)

FitEstep ==
  /\ pc = "idle"
  /\ ret.op = "init"
  /\ \E sw \in Weights(Len(x)), bs \in EdgeBatchSizes,
        use_val \in IF IsNone(x_val) THEN {FALSE} ELSE BOOLEAN :
     \E swv \in IF use_val THEN Weights(Len(Get(x_val))) ELSE {None} :
       LET r == Estep(x, None, sw, bs)
       IN /\ x' = r.x
          /\ IF r.status = "ok"
             THEN /\ fr' = [active |-> TRUE, sample_weights |-> sw,
                            batch_size |-> bs, use_val |-> use_val,
                            sample_weights_val |-> swv,
                            N |-> r.N, u_x |-> r.u_x,
                            elbo |-> <<>>, trace |-> <<"Estep(x)">>,
                            eta_m |-> None, A_m |-> None]
                  /\ pc' = "fit_mstep"
                  /\ ret' = [op |-> "fit", status |-> "running"]
             ELSE /\ fr' = NoFrame
                  /\ pc' = "idle"
                  /\ ret' = [op |-> "fit", status |-> "raise", exc |-> r.exc,
                             sample_weights |-> sw, batch_size |-> bs,
                             use_val |-> use_val, sample_weights_val |-> swv,
                             trace |-> <<"Estep(x)">>]
  /\ Entry
  /\ UNCHANGED <<pipe, eta, A, loghKind, x_val>>

FitMstep ==
  /\ pc = "fit_mstep"
  /\ \E p \in MstepResults(fr.N, fr.u_x) :
       /\ eta' = p.eta
       /\ A' = p.A
       /\ fr' = [fr EXCEPT !.trace = Append(@, "Mstep"),
                            !.eta_m = p.eta, !.A_m = p.A]
  /\ pc' = "fit_elbo"
  /\ UNCHANGED <<pipe, loghKind, x, x_val, ret, pre_x, pre_x_val>>

FitElbo ==
  /\ pc = "fit_elbo"
  /\ LET r == elbo(x, Some(fr.u_x), fr.N, None, None, None)
     IN /\ x' = r.x
        /\ IF r.status = "ok"
           THEN /\ fr' = [fr EXCEPT !.elbo = <<r.value, Div(r.value, fr.N)>>,
                                    !.trace = Append(@, "elbo(x)")]
                /\ pc' = IF fr.use_val THEN "fit_val_estep" ELSE "fit_return"
                /\ ret' = ret
           ELSE /\ fr' = NoFrame
                /\ pc' = "idle"
                /\ ret' = [op |-> "fit", status |-> "raise", exc |-> r.exc,
                           sample_weights |-> fr.sample_weights,
                           batch_size |-> fr.batch_size,
                           use_val |-> fr.use_val,
                           sample_weights_val |-> fr.sample_weights_val,
                           trace |-> Append(fr.trace, "elbo(x)")]
  /\ UNCHANGED <<pipe, eta, A, loghKind, x_val, pre_x, pre_x_val>>

(* mutant: the validation statistics are fed to Mstep as well *)
FitValEstep_refit ==
  /\ pc = "fit_val_estep"
  /\ LET r == Estep(Get(x_val), None, fr.sample_weights_val, fr.batch_size)
     IN /\ x_val' = Some(r.x)
        /\ \E p \in MstepResults(r.N, r.u_x) :
              /\ eta' = p.eta
              /\ A' = p.A
        /\ fr' = [fr EXCEPT !.N = r.N, !.u_x = r.u_x,
                            !.trace = Append(@, "Estep(x_val)")]
        /\ pc' = "fit_val_elbo"
        /\ ret' = ret
  /\ UNCHANGED <<pipe, loghKind, x, pre_x, pre_x_val>>

FitValEstep ==
  /\ pc = "fit_val_estep"
  /\ LET r == Estep(Get(x_val), None, fr.sample_weights_val, fr.batch_size)
     IN /\ x_val' = Some(r.x)
        /\ IF r.status = "ok"
           THEN /\ fr' = [fr EXCEPT !.N = r.N, !.u_x = r.u_x,
                                    !.trace = Append(@, "Estep(x_val)")]
                /\ pc' = "fit_val_elbo"
                /\ ret' = ret
           ELSE /\ fr' = NoFrame
                /\ pc' = "idle"
                /\ ret' = [op |-> "fit", status |-> "raise", exc |-> r.exc,
                           sample_weights |-> fr.sample_weights,
                           batch_size |-> fr.batch_size,
                           use_val |-> fr.use_val,
                           sample_weights_val |-> fr.sample_weights_val,
                           trace |-> Append(fr.trace, "Estep(x_val)")]
  /\ UNCHANGED <<pipe, eta, A, loghKind, x, pre_x, pre_x_val>>

(* mutant: a second Mstep on the validation statistics before the ELBO *)
FitValElbo_mstep ==
  /\ pc = "fit_val_elbo"
  /\ LET r == elbo(Get(x_val), Some(fr.u_x), fr.N, None, None, None)
     IN /\ x_val' = Some(r.x)
        /\ fr' = [fr EXCEPT !.elbo = @ \o <<r.value, Div(r.value, fr.N)>>,
                            !.trace = @ \o <<"Mstep", "elbo(x_val)">>]
        /\ pc' = "fit_return"
        /\ ret' = ret
  /\ UNCHANGED <<pipe, eta, A, loghKind, x, pre_x, pre_x_val>>

(* mutant: the validation ELBO is divided by the training count *)
FitValElbo_trainN ==
  /\ pc = "fit_val_elbo"
  /\ LET r == elbo(Get(x_val), Some(fr.u_x), fr.N, None, None, None)
         n == IF IsNone(fr.sample_weights) THEN Len(pre_x)
              ELSE SumSeq(Get(fr.sample_weights))
     IN /\ x_val' = Some(r.x)
        /\ fr' = [fr EXCEPT !.elbo = @ \o <<r.value, Div(r.value, n)>>,
                            !.trace = Append(@, "elbo(x_val)")]
        /\ pc' = "fit_return"
        /\ ret' = ret
  /\ UNCHANGED <<pipe, eta, A, loghKind, x, pre_x, pre_x_val>>

FitValElbo ==
  /\ pc = "fit_val_elbo"
  /\ LET r == elbo(Get(x_val), Some(fr.u_x), fr.N, None, None, None)
     IN /\ x_val' = Some(r.x)
        /\ IF r.status = "ok"
           THEN /\ fr' = [fr EXCEPT !.elbo = @ \o <<r.value, Div(r.value, fr.N)>>,
                                    !.trace = Append(@, "elbo(x_val)")]
                /\ pc' = "fit_return"
                /\ ret' = ret
           ELSE /\ fr' = NoFrame
                /\ pc' = "idle"
                /\ ret' = [op |-> "fit", status |-> "raise", exc |-> r.exc,
                           sample_weights |-> fr.sample_weights,
                           batch_size |-> fr.batch_size,
                           use_val |-> fr.use_val,
                           sample_weights_val |-> fr.sample_weights_val,
                           trace |-> Append(fr.trace, "elbo(x_val)")]
  /\ UNCHANGED <<pipe, eta, A, loghKind, x, pre_x, pre_x_val>>

FitReturn ==
  /\ pc = "fit_return"
  /\ ret' = [op |-> "fit", status |-> "ok", value |-> fr.elbo,
             sample_weights |-> fr.sample_weights,
             batch_size |-> fr.batch_size, use_val |-> fr.use_val,
             sample_weights_val |-> fr.sample_weights_val,
             trace |-> fr.trace, eta_m |-> fr.eta_m, A_m |-> fr.A_m]
  /\ fr' = NoFrame
  /\ pc' = "idle"
  /\ UNCHANGED <<pipe, eta, A, loghKind, x, x_val, pre_x, pre_x_val>>

----------------------------------------------------------------------------
(* accumulation of sufficient statistics *)
NextAccum == CallEstep

SpecAccum == InitAccum /\ [][NextAccum]_vars

(* ELBO of a model whose parameters a concrete Mstep sets; repeated calls, *)
(* the entries of x capped by MaxEntry                                    *)
NextElbo ==
  \/ CallElbo
  \/ CallMstep

SpecElbo == InitElbo /\ [][NextElbo]_vars

(* per-sample log-likelihood, static conversions, assignment of eta *)
NextLlk ==
  \/ CallEvalLlk
  \/ CallStatic
  \/ CallMstep
  \/ AssignEta

SpecLlk == InitLlk /\ [][NextLlk]_vars

(* one call of fit *)
Next ==
  \/ FitEstep
  \/ FitMstep
  \/ FitElbo
  \/ FitValEstep
  \/ FitValElbo
  \/ FitReturn

Spec == Init /\ [][Next]_vars

----------------------------------------------------------------------------
(* eval-be-plda-snorm-v1.py: the scoring program *)

MaxEnroll == 2
MaxId == 2
MaxTest == 1
MaxCohort == 3

Max(a, b) == IF a > b THEN a ELSE b

(* --pool-method: choices and default *)
choices == {"book", "vavg", "vavg-lnorm", "savg"}

default_pool_method == "vavg-lnorm"

(* the spellings a command line gives for --pool-method *)
MethodStrings ==
  choices \cup {"BOOK", "Vavg", "VAVG-LNorm", "SAvg", "plda", "Cosine"}

(* type=str.lower *)
str_lower(s) ==
  CASE s = "BOOK" -> "book"
    [] s = "Vavg" -> "vavg"
    [] s = "VAVG-LNorm" -> "vavg-lnorm"
    [] s = "SAvg" -> "savg"
    [] s = "Cosine" -> "cosine"
    [] OTHER -> s

(* np.unique(a, return_inverse=True): the sorted distinct values and, for *)
(* each element, the 0-based position of its value among them            *)
RECURSIVE SortedSeq(_)
SortedSeq(S) ==
  IF S = {} THEN <<>>
  ELSE LET m == CHOOSE v \in S : \A w \in S : v <= w
       IN  <<m>> \o SortedSeq(S \ {m})

(* mutant: the inverse holds the position of the first occurrence in a *)
np_unique_first(a) ==
  LET u == SortedSeq({a[i] : i \in DOMAIN a})
  IN  [unique |-> u,
       inverse |-> [i \in DOMAIN a |->
                      (CHOOSE k \in DOMAIN a :
                         a[k] = a[i] /\ \A l \in 1..(k - 1) : a[l] # a[i]) - 1]]

np_unique(a) ==
  LET u == SortedSeq({a[i] : i \in DOMAIN a})
  IN  [unique |-> u,
       inverse |-> [i \in DOMAIN a |->
                      (CHOOSE k \in 1..Len(u) : u[k] = a[i]) - 1]]

(* the readers: the embedding of a segment is its position in the store, *)
(* a preprocessing transform doubles it                                  *)
apply_preproc(preproc, v) == IF IsNone(preproc) THEN v ELSE 2 * v

TDR_read(world, preproc) ==
  [x_e |-> [i \in 1..Len(world.enroll) |-> apply_preproc(preproc, i)],
   x_t |-> [j \in 1..world.n_test |-> apply_preproc(preproc, j)],
   enroll |-> world.enroll,
   ndx |-> [seg_set |-> [j \in 1..world.n_test |-> j]]]

VR_read(world, preproc) ==
  [k \in 1..Len(world.coh) |-> apply_preproc(preproc, world.coh[k])]

(* the PLDA model: a bilinear score; llr_Nvs1 pools the rows of x1 that *)
(* share a group id                                                     *)
llr_1vs1(x1, x2) ==
  [i \in 1..Len(x1) |-> [j \in 1..Len(x2) |-> x1[i] * x2[j]]]

RECURSIVE MaxSeq(_)
MaxSeq(s) == IF Len(s) = 1 THEN s[1] ELSE Max(s[1], MaxSeq(Tail(s)))

RECURSIVE GroupSum(_, _, _, _)
GroupSum(x1, ids1, g, i) ==
  IF i = 0 THEN [n |-> 0, sum |-> 0]
  ELSE LET r == GroupSum(x1, ids1, g, i - 1)
       IN  IF ids1[i] = g THEN [n |-> r.n + 1, sum |-> r.sum + x1[i]] ELSE r

pool(method, x1, ids1, g) ==
  LET r == GroupSum(x1, ids1, g, Len(x1))
  IN  IF method = "book" \/ r.n = 0 THEN r.sum ELSE r.sum \div r.n

llr_Nvs1(x1, x2, method, ids1) ==
  [g \in 1..(MaxSeq(ids1) + 1) |->
     [j \in 1..Len(x2) |-> pool(method, x1, ids1, g - 1) * x2[j]]]

(* AdaptSNorm: the cohort scores a side's statistics are computed from, *)
(* and the statistics themselves as count, sum and sum of squares       *)
RECURSIVE insert_desc(_, _)
insert_desc(v, s) ==
  IF Len(s) = 0 THEN <<v>>
  ELSE IF v >= s[1] THEN <<v>> \o s
  ELSE <<s[1]>> \o insert_desc(v, Tail(s))

RECURSIVE SortDesc(_)
SortDesc(s) ==
  IF Len(s) = 0 THEN <<>> ELSE insert_desc(s[1], SortDesc(Tail(s)))

SNorm(nbest, nbest_discard) ==
  [nbest |-> nbest, nbest_discard |-> nbest_discard]

snorm_select(snorm, coh_scores) ==
  SubSeq(SortDesc(coh_scores), snorm.nbest_discard + 1,
         Min(snorm.nbest_discard + snorm.nbest, Len(coh_scores)))

Stats(sel) ==
  [n |-> Len(sel),
   sum |-> SumSeq(sel),
   sumsq |-> SumSeq([k \in 1..Len(sel) |-> sel[k] * sel[k]])]

Column(m, j) == [k \in 1..Len(m) |-> m[k][j]]

snorm_predict(snorm, S, S_ct, S_ec) ==
  [i \in 1..Len(S) |->
     [j \in 1..Len(S[i]) |->
        [s |-> S[i][j],
         e |-> Stats(snorm_select(snorm, S_ec[i])),
         t |-> Stats(snorm_select(snorm, Column(S_ct, j)))]]]

(* TrialScores(model_set, seg_set, scores).save_txt *)
TrialScores(model_set, seg_set, scores) ==
  [model_set |-> model_set, seg_set |-> seg_set, scores |-> scores]

(* what the files of a run hold: the identity of every enrollment segment, *)
(* the number of test segments, the cohort embeddings                      *)
EnrollLists == UNION {[1..n -> 1..MaxId] : n \in 1..MaxEnroll}

Perms(c) == {p \in [1..c -> 1..c] : \A a, b \in 1..c : p[a] = p[b] => a = b}

CohortSets ==
  UNION {Perms(c) \cup {[k \in 1..c |-> 1],
                        [k \in 1..c |-> IF k = 1 THEN 1 ELSE 2]} :
         c \in 1..MaxCohort}

PlainEnroll == [i \in 1..MaxEnroll |-> ((i - 1) % MaxId) + 1]

PlainCohort == [k \in 1..MaxCohort |-> k]

Worlds ==
  {[enroll |-> e, n_test |-> t, coh |-> c] :
     e \in EnrollLists, t \in 1..MaxTest, c \in {PlainCohort}}
  \cup
  {[enroll |-> e, n_test |-> t, coh |-> c] :
     e \in {PlainEnroll}, t \in 1..MaxTest, c \in CohortSets}

(* the arguments eval_plda is called with *)
EvalArgs(world) ==
  {[pool_method |-> m, preproc_file |-> p,
    test_file |-> None, ndx_file |-> Some("ndx"),
    coh_nbest |-> n, coh_nbest_discard |-> d] :
     m \in choices, p \in {None, Some("preproc")},
     n \in 1..Len(world.coh), d \in 0..(Len(world.coh) - 1)}

(* the frame of eval_plda at its first statement *)
EvalPldaEntry(argv, args, world) ==
  [pc |-> "load_data", argv |-> argv, args |-> args, world |-> world,
   preproc |-> None, x_e |-> None, x_t |-> None, enroll |-> None,
   ids_e |-> None, ndx |-> None, model |-> None, scores |-> None,
   num_trials |-> None, x_coh |-> None, scores_coh_test |-> None,
   scores_enr_coh |-> None, log |-> <<>>, saved |-> None]

ExpFamilyIdle ==
  /\ eta = None
  /\ A = None
  /\ loghKind = "base"
  /\ x = <<>>
  /\ x_val = None
  /\ pc = "idle"
  /\ fr = NoFrame
  /\ ret = [op |-> "init"]
  /\ pre_x = <<>>
  /\ pre_x_val = None

InitPlda ==
  /\ ExpFamilyIdle
  /\ \E world \in Worlds : \E args \in EvalArgs(world) :
       /\ args.coh_nbest + args.coh_nbest_discard <= Len(world.coh)
       /\ pipe = EvalPldaEntry(None, args, world)

ExpFamilyUnchanged ==
  UNCHANGED <<eta, A, loghKind, x, x_val, pc, fr, ret, pre_x, pre_x_val>>

(* lines 45-53 *)
LoadData ==
  /\ pipe.pc = "load_data"
  /\ LET preproc == IF ~IsNone(pipe.args.preproc_file)
                    THEN Some("TransformList") ELSE None
         r == TDR_read(pipe.world, preproc)
         u == np_unique(r.enroll)
     IN  pipe' = [pipe EXCEPT !.pc = "load_model",
                              !.preproc = preproc,
                              !.x_e = r.x_e, !.x_t = r.x_t,
                              !.enroll = u.unique, !.ids_e = u.inverse,
                              !.ndx = r.ndx,
                              !.log = Append(@, [call |-> "tdr.read",
                                                 preproc |-> preproc])]
  /\ ExpFamilyUnchanged

(* lines 55-56 *)
LoadModel ==
  /\ pipe.pc = "load_model"
  /\ pipe' = [pipe EXCEPT !.pc = "score_trials",
                          !.model = Some("plda"),
                          !.log = Append(@, [call |-> "load_plda"])]
  /\ ExpFamilyUnchanged

(* lines 58-67 *)
ScoreTrials ==
  /\ pipe.pc = "score_trials"
  /\ LET s == llr_Nvs1(pipe.x_e, pipe.x_t, pipe.args.pool_method, pipe.ids_e)
     IN  pipe' = [pipe EXCEPT !.pc = "load_cohort",
                              !.scores = s,
                              !.num_trials = Len(pipe.enroll) * Len(pipe.x_t),
                              !.log = Append(@, [call |-> "llr_Nvs1",
                                                 x1 |-> pipe.x_e,
                                                 x2 |-> pipe.x_t,
                                                 method |-> pipe.args.pool_method,
                                                 ids1 |-> pipe.ids_e,
                                                 result |-> s])]
  /\ ExpFamilyUnchanged

(* lines 69-71 *)
LoadCohort ==
  /\ pipe.pc = "load_cohort"
  /\ pipe' = [pipe EXCEPT !.pc = "score_coh_test",
                          !.x_coh = VR_read(pipe.world, pipe.preproc),
                          !.log = Append(@, [call |-> "vr.read",
                                             preproc |-> pipe.preproc])]
  /\ ExpFamilyUnchanged

(* lines 73-75 *)
ScoreCohTest ==
  /\ pipe.pc = "score_coh_test"
  /\ LET s == llr_1vs1(pipe.x_coh, pipe.x_t)
     IN  pipe' = [pipe EXCEPT !.pc = "score_enr_coh",
                              !.scores_coh_test = s,
                              !.log = Append(@, [call |-> "llr_1vs1",
                                                 x1 |-> pipe.x_coh,
                                                 x2 |-> pipe.x_t,
                                                 result |-> s])]
  /\ ExpFamilyUnchanged

(* mutant: the enrollment side is scored against the cohort with the *)
(* default pooling method                                            *)
ScoreEnrCoh_default ==
  /\ pipe.pc = "score_enr_coh"
  /\ LET s == llr_Nvs1(pipe.x_e, pipe.x_coh, default_pool_method, pipe.ids_e)
     IN  pipe' = [pipe EXCEPT !.pc = "apply_snorm",
                              !.scores_enr_coh = s,
                              !.log = Append(@, [call |-> "llr_Nvs1",
                                                 x1 |-> pipe.x_e,
                                                 x2 |-> pipe.x_coh,
                                                 method |-> default_pool_method,
                                                 ids1 |-> pipe.ids_e,
                                                 result |-> s])]
  /\ ExpFamilyUnchanged

(* lines 76-80 *)
ScoreEnrCoh ==
  /\ pipe.pc = "score_enr_coh"
  /\ LET s == llr_Nvs1(pipe.x_e, pipe.x_coh, pipe.args.pool_method, pipe.ids_e)
     IN  pipe' = [pipe EXCEPT !.pc = "apply_snorm",
                              !.scores_enr_coh = s,
                              !.log = Append(@, [call |-> "llr_Nvs1",
                                                 x1 |-> pipe.x_e,
                                                 x2 |-> pipe.x_coh,
                                                 method |-> pipe.args.pool_method,
                                                 ids1 |-> pipe.ids_e,
                                                 result |-> s])]
  /\ ExpFamilyUnchanged

(* mutant: nbest and nbest_discard change places *)
ApplySNorm_swapped ==
  /\ pipe.pc = "apply_snorm"
  /\ LET snorm == SNorm(pipe.args.coh_nbest_discard, pipe.args.coh_nbest)
         s == snorm_predict(snorm, pipe.scores, pipe.scores_coh_test,
                            pipe.scores_enr_coh)
     IN  pipe' = [pipe EXCEPT !.pc = "save",
                              !.scores = s,
                              !.log = Append(@, [call |-> "snorm.predict",
                                                 snorm |-> snorm,
                                                 scores |-> pipe.scores,
                                                 scores_coh_test |-> pipe.scores_coh_test,
                                                 scores_enr_coh |-> pipe.scores_enr_coh,
                                                 result |-> s])]
  /\ ExpFamilyUnchanged

(* lines 82-93 *)
ApplySNorm ==
  /\ pipe.pc = "apply_snorm"
  /\ LET snorm == SNorm(pipe.args.coh_nbest, pipe.args.coh_nbest_discard)
         s == snorm_predict(snorm, pipe.scores, pipe.scores_coh_test,
                            pipe.scores_enr_coh)
     IN  pipe' = [pipe EXCEPT !.pc = "save",
                              !.scores = s,
                              !.log = Append(@, [call |-> "snorm.predict",
                                                 snorm |-> snorm,
                                                 scores |-> pipe.scores,
                                                 scores_coh_test |-> pipe.scores_coh_test,
                                                 scores_enr_coh |-> pipe.scores_enr_coh,
                                                 result |-> s])]
  /\ ExpFamilyUnchanged

(* lines 95-97 *)
SaveScores ==
  /\ pipe.pc = "save"
  /\ LET s == TrialScores(pipe.enroll, pipe.ndx.seg_set, pipe.scores)
     IN  pipe' = [pipe EXCEPT !.pc = "done",
                              !.saved = Some(s),
                              !.log = Append(@, [call |-> "save_txt",
                                                 scores |-> s])]
  /\ ExpFamilyUnchanged

(* one run of eval_plda *)
NextPlda ==
  \/ LoadData
  \/ LoadModel
  \/ ScoreTrials
  \/ LoadCohort
  \/ ScoreCohTest
  \/ ScoreEnrCoh
  \/ ApplySNorm
  \/ SaveScores

SpecPlda == InitPlda /\ [][NextPlda]_vars

----------------------------------------------------------------------------
(* the command line of the scoring program, lines 100-134 *)

default_coh_nbest == 100

default_coh_nbest_discard == 0

(* the options a command line gives; None: the option is absent *)
CommandLines ==
  {[pool_method |-> m, test_file |-> t, ndx_file |-> n, preproc_file |-> p,
    coh_nbest |-> b, coh_nbest_discard |-> None] :
     m \in {None} \cup {Some(s) : s \in MethodStrings},
     t \in {None, Some("test")}, n \in {None, Some("ndx")},
     p \in {None, Some("preproc")}, b \in {None, Some(MaxCohort)}}

CliWorld == [enroll |-> PlainEnroll, n_test |-> MaxTest, coh |-> PlainCohort]

InitCli ==
  /\ ExpFamilyIdle
  /\ \E argv \in CommandLines :
       pipe = [pc |-> "main", argv |-> argv, args |-> None, exit |-> None,
               world |-> CliWorld]

OrDefault(o, d) == IF IsNone(o) THEN d ELSE Get(o)

(* mutant: --pool-method is declared without choices *)
ParseArgs_nochoices ==
  /\ pipe.pc = "main"
  /\ LET a == pipe.argv
         m == IF IsNone(a.pool_method) THEN default_pool_method
              ELSE str_lower(Get(a.pool_method))
     IN  pipe' = [pipe EXCEPT
                    !.pc = "assert",
                    !.args = Some([pool_method |-> m,
                                   preproc_file |-> a.preproc_file,
                                   test_file |-> a.test_file,
                                   ndx_file |-> a.ndx_file,
                                   coh_nbest |->
                                     OrDefault(a.coh_nbest, default_coh_nbest),
                                   coh_nbest_discard |->
                                     OrDefault(a.coh_nbest_discard,
                                               default_coh_nbest_discard)])]
  /\ ExpFamilyUnchanged

(* lines 102-131: parser.parse_args() *)
ParseArgs ==
  /\ pipe.pc = "main"
  /\ LET a == pipe.argv
         m == IF IsNone(a.pool_method) THEN default_pool_method
              ELSE str_lower(Get(a.pool_method))
     IN  IF ~IsNone(a.pool_method) /\ m \notin choices
         THEN pipe' = [pipe EXCEPT !.pc = "exit", !.exit = Some("SystemExit")]
         ELSE pipe' = [pipe EXCEPT
                         !.pc = "assert",
                         !.args = Some([pool_method |-> m,
                                        preproc_file |-> a.preproc_file,
                                        test_file |-> a.test_file,
                                        ndx_file |-> a.ndx_file,
                                        coh_nbest |->
                                          OrDefault(a.coh_nbest, default_coh_nbest),
                                        coh_nbest_discard |->
                                          OrDefault(a.coh_nbest_discard,
                                                    default_coh_nbest_discard)])]
  /\ ExpFamilyUnchanged

(* line 133 *)
AssertFiles ==
  /\ pipe.pc = "assert"
  /\ IF ~IsNone(Get(pipe.args).test_file) \/ ~IsNone(Get(pipe.args).ndx_file)
     THEN pipe' = [pipe EXCEPT !.pc = "call"]
     ELSE pipe' = [pipe EXCEPT !.pc = "exit", !.exit = Some("AssertionError")]
  /\ ExpFamilyUnchanged

(* line 134 *)
CallEvalPlda ==
  /\ pipe.pc = "call"
  /\ pipe' = EvalPldaEntry(pipe.argv, Get(pipe.args), pipe.world)
  /\ ExpFamilyUnchanged

NextCli ==
  \/ ParseArgs
  \/ AssertFiles
  \/ CallEvalPlda

SpecCli == InitCli /\ [][NextCli]_vars

----------------------------------------------------------------------------
(* Properties *)

OnesLike(m) == [i \in 1..Len(m) |-> 1]

RECURSIVE WeightedRowSum(_, _, _)
WeightedRowSum(m, w, i) ==
  IF i = 0 THEN Zeros
  ELSE VecAdd(WeightedRowSum(m, w, i - 1), [j \in 1..Dim |-> w[i] * m[i][j]])

\* C1: for a non-empty x, every sample_weights and every batch size b >= 1
\* (also b larger than the number of rows), Estep(x, sample_weights,
\* batch_size=b) returns normally the pair (N, u_x) that the single pass
\* over the same input contents returns.
C1_BatchSizeIrrelevant ==
  (ret.op = "Estep" /\ IsNone(ret.u_x_arg) /\ Len(pre_x) >= 1) =>
    LET one == accum_suff_stats_1batch(pre_x, None, ret.sample_weights)
    IN /\ ret.status = "ok"
       /\ ret.N = one.N
       /\ ret.u_x = one.u_x

C1_Witness ==
  /\ ret.op = "Estep"
  /\ IsNone(ret.u_x_arg)
  /\ Len(pre_x) = 2
  /\ ret.batch_size = Some(1)
  /\ ret.sample_weights = Some(<<1, 2>>)
  /\ pre_x[2][1] = 1
  /\ ret.status = "ok"

\* C2: when Estep returns, N is the number of rows without sample weights
\* and the sum of the weights with them, and u_x is the sum over the rows i
\* of the sufficient statistics of row i, times w[i] when weights are given,
\* on the single-pass path and on the batched path.
C2_EstepValue ==
  (ret.op = "Estep" /\ ret.status = "ok") =>
    LET stats == IF IsNone(ret.u_x_arg) THEN compute_suff_stats(pre_x)
                 ELSE Get(ret.u_x_arg)
        w     == IF IsNone(ret.sample_weights) THEN OnesLike(stats)
                 ELSE Get(ret.sample_weights)
    IN /\ ret.N = IF IsNone(ret.sample_weights) THEN Len(pre_x)
                  ELSE SumSeq(w)
       /\ ret.u_x = WeightedRowSum(stats, w, Len(stats))

C2_Witness ==
  /\ ret.op = "Estep"
  /\ ret.status = "ok"
  /\ IsNone(ret.u_x_arg)
  /\ Len(pre_x) = 2
  /\ ret.batch_size = Some(2)
  /\ ret.sample_weights = Some(<<2, 1>>)
  /\ pre_x[1][1] = 1
  /\ ret.N = 3

FitCalls == <<"Estep(x)", "Mstep", "elbo(x)", "Estep(x_val)", "elbo(x_val)">>

IsPrefix(s, t) == Len(s) <= Len(t) /\ SubSeq(t, 1, Len(s)) = s

EffCount(m, sw) == IF IsNone(sw) THEN Len(m) ELSE SumSeq(Get(sw))

FitReturned == pc = "idle" /\ ret.op = "fit" /\ ret.status = "ok"

\* C3: a call of fit makes its calls in the order Estep on x, Mstep, elbo on
\* x and, with x_val, Estep on x_val, elbo on x_val: one Estep on x, one
\* Mstep, the training ELBO only after that Mstep, never a second Mstep, and
\* a call that returns has made exactly these calls.
C3_OneEMIteration ==
  /\ pc # "idle" => (Len(fr.trace) >= 1 /\ IsPrefix(fr.trace, FitCalls))
  /\ FitReturned =>
       ret.trace = IF ret.use_val THEN FitCalls ELSE SubSeq(FitCalls, 1, 3)

C3_Witness ==
  /\ FitReturned
  /\ ret.use_val
  /\ Len(ret.trace) = 5
  /\ ~IsNone(ret.batch_size)

\* C4: from the return of Mstep to the return of fit, eta and A are the
\* values that Mstep produced, and with x_val the validation ELBO is the one
\* of these parameters (stated for the class's own logh = 0; the base-measure
\* term is the subject of C17).
C4_ValidationUsesUpdatedParams ==
  /\ pc \in {"fit_elbo", "fit_val_estep", "fit_val_elbo", "fit_return"} =>
       (eta = fr.eta_m /\ A = fr.A_m /\ ~IsNone(fr.eta_m) /\ ~IsNone(fr.A_m))
  /\ FitReturned => (eta = ret.eta_m /\ A = ret.A_m)
  /\ (FitReturned /\ ret.use_val /\ loghKind = "base") =>
       LET v == Estep(Get(pre_x_val), None, ret.sample_weights_val,
                      ret.batch_size)
       IN ret.value[3] =
            Inner(v.u_x, Get(ret.eta_m)) - v.N * Get(ret.A_m)

C4_Witness ==
  /\ FitReturned
  /\ ret.use_val
  /\ loghKind = "base"
  /\ ret.sample_weights_val = Some(<<2>>)
  /\ Get(pre_x_val)[1][1] = 1
  /\ Get(ret.eta_m)[1] = 1
  /\ ret.value[3] = 0

\* C5: fit returns 2 entries [elbo, elbo/N_train] without x_val and 4 entries
\* [elbo, elbo/N_train, elbo_val, elbo_val/N_val] with it; N_train is the
\* effective count of x and N_val the one of x_val, and the two training
\* entries are the training ELBO also after the validation step.
C5_FitReturnShape ==
  FitReturned =>
    LET n_train == EffCount(pre_x, ret.sample_weights)
        u_train == Estep(pre_x, None, ret.sample_weights, ret.batch_size).u_x
    IN /\ Len(ret.value) = IF ret.use_val THEN 4 ELSE 2
       /\ ret.value[1] = elbo(x, Some(u_train), n_train, None, None, None).value
       /\ ret.value[2] = Div(ret.value[1], n_train)
       /\ ret.use_val =>
            ret.value[4] = Div(ret.value[3],
                               EffCount(Get(pre_x_val), ret.sample_weights_val))

C5_Witness ==
  /\ FitReturned
  /\ ret.use_val
  /\ Len(ret.value) = 4
  /\ EffCount(pre_x, ret.sample_weights) = 3
  /\ EffCount(Get(pre_x_val), ret.sample_weights_val) = 2
  /\ ret.value[3] # 0

\* C7: the training ELBO that fit returned equals the one a caller obtains
\* right after the return from (N, u_x) = Estep(x, sample_weights,
\* batch_size) on the same x and elbo(x, u_x=u_x, N=N) on the same model.
C7_ElboConsistency ==
  FitReturned =>
    LET e == Estep(x, None, ret.sample_weights, ret.batch_size)
        v == elbo(e.x, Some(e.u_x), e.N, None, None, None)
    IN /\ e.status = "ok"
       /\ v.status = "ok"
       /\ v.value = ret.value[1]

\* C6: elbo returns logh_total + <u_x, eta> - N*A; a passed u_x and the
\* passed N are used as they are; without u_x, N and u_x are the accumulated
\* statistics of x under sample_weights and a passed N is ignored; without
\* logh, logh_total is the sum of logh over the rows of x, weighted by
\* sample_weights when given.
C6_ElboValue ==
  (ret.op = "elbo" /\ ret.status = "ok") =>
    LET given == ~IsNone(ret.u_x_arg)
        w     == IF IsNone(ret.sample_weights) THEN OnesLike(pre_x)
                 ELSE Get(ret.sample_weights)
        N     == IF given THEN ret.N_arg
                 ELSE EffCount(pre_x, ret.sample_weights)
        U     == IF given THEN Get(ret.u_x_arg)
                 ELSE WeightedRowSum(compute_suff_stats(pre_x), w, Len(pre_x))
        LH    == IF IsNone(ret.logh_arg)
                 THEN SumSeq([i \in 1..Len(pre_x) |-> w[i] * logh(pre_x)[i]])
                 ELSE Get(ret.logh_arg)
    IN ret.value = LH + Inner(U, Get(eta)) - N * Get(A)

\* C8: whenever a likelihood is evaluated on a model that holds an eta, the
\* stored A is the log-partition value of the stored eta.
C8_ParamsConsistentAtEvaluation ==
  (ret.op = "eval_llk" /\ ret.mode = "nat" /\ ~IsNone(eta)) =>
    (~IsNone(A) /\ Get(A) = log_partition(Get(eta)))

\* C9: Estep leaves the caller's arrays as they were: after the call x and
\* a caller-supplied u_x hold the contents they held before it.
C9_CallerArraysUnchanged ==
  ret.op = "Estep" => (x = pre_x /\ ret.u_x_arg_after = ret.u_x_arg)

\* C10: eval_llk with mode 'nat' yields logh(x) + <u_x, eta> - A for each
\* sample, with u_x computed from x when it is not passed (the expression
\* raises when the model holds no eta or no A); any other mode ends in an
\* error; the static conversions raise NotImplementedError; none of these
\* calls changes eta, A or x.
C10_EvalLlk ==
  /\ (ret.op = "eval_llk" /\ ret.mode = "nat") =>
       IF IsNone(eta) \/ IsNone(A) THEN ret.status = "raise"
       ELSE /\ ret.status = "ok"
            /\ Len(ret.value) = Len(x)
            /\ LET U == IF IsNone(ret.u_x_arg) THEN compute_suff_stats(x)
                        ELSE Get(ret.u_x_arg)
               IN \A i \in 1..Len(x) :
                    ret.value[i] =
                      logh(x)[i] + Inner(U[i], Get(eta)) - Get(A)
  /\ (ret.op = "eval_llk" /\ ret.mode # "nat") =>
       (ret.status = "raise" /\ ret.exc = "AttributeError")
  /\ ret.op \in StaticNames =>
       (ret.status = "raise" /\ ret.exc = "NotImplementedError")
  /\ ret.op \in StaticNames \cup {"eval_llk"} =>
       (eta = ret.eta_before /\ A = ret.A_before /\ x = pre_x)

C10_Witness ==
  /\ ret.op = "eval_llk"
  /\ ret.mode = "nat"
  /\ ret.status = "ok"
  /\ IsNone(ret.u_x_arg)
  /\ loghKind = "override"
  /\ Len(x) = 2
  /\ ret.value[1] # ret.value[2]
  /\ Get(eta)[1] = 1

Stages ==
  <<"tdr.read", "load_plda", "llr_Nvs1", "vr.read", "llr_1vs1", "llr_Nvs1",
    "snorm.predict", "save_txt">>

StagesDone ==
  CASE pipe.pc = "load_data" -> 0
    [] pipe.pc = "load_model" -> 1
    [] pipe.pc = "score_trials" -> 2
    [] pipe.pc = "load_cohort" -> 3
    [] pipe.pc = "score_coh_test" -> 4
    [] pipe.pc = "score_enr_coh" -> 5
    [] pipe.pc = "apply_snorm" -> 6
    [] pipe.pc = "save" -> 7
    [] pipe.pc = "done" -> 8

InEvalPlda == pipe.pc \in {"load_data", "load_model", "score_trials",
                           "load_cohort", "score_coh_test", "score_enr_coh",
                           "apply_snorm", "save", "done"}

\* C11: in a run of eval_plda the calls made so far are the first stages of
\* the list (read the trial data, load the PLDA model, llr_Nvs1 for the
\* trial scores, read the cohort, llr_1vs1 cohort against test, llr_Nvs1
\* enrollment against cohort, S-Norm predict, save), each once and in that
\* order; the enrollment-against-cohort call gets the pooling method and the
\* group ids of the trial call; predict gets exactly the three matrices those
\* calls returned; the scores are saved only after predict, and they are the
\* matrix predict returned; no ExpFamily operation is run, so no model is
\* fitted.
C11_StageOrder ==
  InEvalPlda =>
    LET log == pipe.log
        k == Len(log)
    IN  /\ k = StagesDone
        /\ \A s \in 1..k : log[s].call = Stages[s]
        /\ k >= 3 =>
             /\ log[3].x1 = pipe.x_e /\ log[3].x2 = pipe.x_t
             /\ log[3].method = pipe.args.pool_method
             /\ log[3].ids1 = pipe.ids_e
        /\ k >= 5 => log[5].x1 = pipe.x_coh /\ log[5].x2 = pipe.x_t
        /\ k >= 6 =>
             /\ log[6].x1 = pipe.x_e /\ log[6].x2 = pipe.x_coh
             /\ log[6].method = log[3].method
             /\ log[6].ids1 = log[3].ids1
        /\ k >= 7 =>
             /\ log[7].scores = log[3].result
             /\ log[7].scores_coh_test = log[5].result
             /\ log[7].scores_enr_coh = log[6].result
        /\ IsNone(pipe.saved) <=> k < 8
        /\ k = 8 => /\ log[8].scores.scores = log[7].result
                    /\ Get(pipe.saved) = log[8].scores
        /\ IsNone(pipe.model) <=> k < 2
        /\ ret.op = "init" /\ pc = "idle" /\ ~fr.active

C11_Witness ==
  /\ pipe.pc = "done"
  /\ pipe.args.pool_method # default_pool_method
  /\ Len(pipe.enroll) < Len(pipe.x_e)
  /\ Len(pipe.log) = 8

\* C12: after the enrollment identities are deduplicated, the unique list
\* indexed by the group id of row i gives the identity row i had; two rows
\* share a group id exactly when their identities are equal; the group ids
\* used are exactly 0 .. (number of unique identities - 1); the trial score
\* matrix and the saved scores have one row per unique identity, labelled by
\* the unique list.
C12_EnrollDedup ==
  (InEvalPlda /\ pipe.pc # "load_data") =>
    LET raw == pipe.world.enroll
        u == pipe.enroll
        ids == pipe.ids_e
    IN  /\ Len(ids) = Len(raw)
        /\ \A i \in 1..Len(raw) : u[ids[i] + 1] = raw[i]
        /\ \A i, k \in 1..Len(raw) : (ids[i] = ids[k]) <=> (raw[i] = raw[k])
        /\ {ids[i] : i \in 1..Len(raw)} = 0..(Len(u) - 1)
        /\ Len(u) = Cardinality({raw[i] : i \in 1..Len(raw)})
        /\ ~IsNone(pipe.scores) => Len(pipe.scores) = Len(u)
        /\ ~IsNone(pipe.saved) =>
             /\ Get(pipe.saved).model_set = u
             /\ Len(Get(pipe.saved).scores) = Len(u)

C12_Witness ==
  /\ pipe.pc = "done"
  /\ \E i, k \in 1..Len(pipe.world.enroll) :
       i < k /\ pipe.world.enroll[i] = pipe.world.enroll[k]
  /\ Len(Get(pipe.saved).model_set) < Len(pipe.world.enroll)

(* the statistics of the cohort scores whose rank, counted from the highest, *)
(* lies in d+1 .. d+n: a value v occupies the ranks GT(v)+1 .. GE(v)         *)
RankMult(col, d, n, v) ==
  LET GT == Cardinality({k \in 1..Len(col) : col[k] > v})
      GE == Cardinality({k \in 1..Len(col) : col[k] >= v})
  IN  Max(0, Min(d + n, GE) - Max(d, GT))

RECURSIVE RankStatsOver(_, _, _, _)
RankStatsOver(col, d, n, V) ==
  IF V = {} THEN [n |-> 0, sum |-> 0, sumsq |-> 0]
  ELSE LET v == CHOOSE w \in V : TRUE
           r == RankStatsOver(col, d, n, V \ {v})
           m == RankMult(col, d, n, v)
       IN  [n |-> r.n + m, sum |-> r.sum + m * v, sumsq |-> r.sumsq + m * v * v]

RankStats(col, d, n) ==
  RankStatsOver(col, d, n, {col[k] : k \in 1..Len(col)})

C14_RejectedBeforeEval ==
  (pipe.pc # "none" /\ ~IsNone(pipe.argv)) =>
    LET a == pipe.argv
        BadMethod == /\ ~IsNone(a.pool_method)
                     /\ str_lower(Get(a.pool_method))
                          \notin {"book", "vavg", "vavg-lnorm", "savg"}
        NoFiles == IsNone(a.test_file) /\ IsNone(a.ndx_file)
    IN  /\ BadMethod => pipe.pc \in {"main", "exit"}
        /\ NoFiles => pipe.pc \in {"main", "assert", "exit"}
        /\ pipe.pc = "exit" => pipe.exit \in {Some("SystemExit"),
                                              Some("AssertionError")}
        /\ InEvalPlda =>
             /\ Len(pipe.log) = 0
             /\ pipe.args.pool_method =
                  (IF IsNone(a.pool_method) THEN "vavg-lnorm"
                   ELSE str_lower(Get(a.pool_method)))

C14_Witness ==
  /\ pipe.pc = "exit"
  /\ pipe.argv.pool_method = Some("Cosine")
  /\ pipe.exit = Some("SystemExit")


\* C15: for x of n >= 1 rows and a batch size b >= 1 the chunk loop runs
\* ceil(n/b) times and the call returns; chunk k covers the rows
\* [(k-1)b, min(kb, n)), so the chunks come in increasing row order, hold
\* between 1 and b rows each, are pairwise disjoint and cover every row once;
\* the sample weights a chunk is given are the slice of the same rows.
C15_ChunkPartition ==
  (ret.op = "Estep" /\ IsNone(ret.u_x_arg) /\ ~IsNone(ret.batch_size)
     /\ Len(pre_x) >= 1) =>
    LET n == Len(pre_x)
        b == Get(ret.batch_size)
        c == ret.chunks
    IN  /\ ret.status = "ok"
        /\ Len(c) = (n + b - 1) \div b
        /\ \A k \in 1..Len(c) :
             /\ c[k].i1 = (k - 1) * b
             /\ c[k].i2 = Min(k * b, n)
             /\ c[k].i2 - c[k].i1 \in 1..b
             /\ k > 1 => c[k].i1 = c[k - 1].i2
             /\ c[k].sw_i =
                  (IF IsNone(ret.sample_weights) THEN None
                   ELSE Some(SubSeq(Get(ret.sample_weights),
                                    c[k].i1 + 1, c[k].i2)))
        /\ \A row \in 0..(n - 1) :
             Cardinality({k \in 1..Len(c) : c[k].i1 <= row /\ row < c[k].i2}) = 1

C15_Witness ==
  /\ ret.op = "Estep"
  /\ IsNone(ret.u_x_arg)
  /\ Len(pre_x) = 3
  /\ ret.batch_size = Some(2)
  /\ ~IsNone(ret.sample_weights)
  /\ Len(ret.chunks) = 2
  /\ ret.chunks[2].i2 - ret.chunks[2].i1 = 1

\* C16: for x of zero rows, Estep with a batch size returns normally and
\* returns what Estep without a batch size returns: N = 0 and an all-zero
\* u_x.
C16_EmptyBatched ==
  (ret.op = "Estep" /\ IsNone(ret.u_x_arg) /\ Len(pre_x) = 0) =>
    /\ ret.status = "ok"
    /\ ret.N = 0
    /\ ret.u_x = Zeros


\* C17: when fit is given sample_weights w, the base-measure term of the
\* training ELBO it returns is the sum of w[i] * logh(x[i]) over the rows of
\* x, so that the value is the ELBO of x under w on the updated model:
\* sum of w[i] * logh(x[i]) + <weighted u_x, eta> - sum(w) * A.
C17_FitWeightedBaseMeasure ==
  (FitReturned /\ ~IsNone(ret.sample_weights)) =>
    LET w == Get(ret.sample_weights)
        n == Len(pre_x)
        lh == SumSeq([i \in 1..n |-> w[i] * logh(pre_x)[i]])
    IN  ret.value[1] =
          lh + Inner(WeightedRowSum(pre_x, w, n), Get(ret.eta_m))
             - SumSeq(w) * Get(ret.A_m)


====
